---------------------------- MODULE Spec2Model ----------------------------
(***************************************************************************)
(* A model of the Anthropic provider adapter of obsidian-smart-composer    *)
(* (src/src/core/llm/anthropic.ts): request translation, the vendor        *)
(* transport call and its error classification, and the streaming          *)
(* generator that folds vendor events into canonical chunks; and of the    *)
(* settings migration (src/src/settings/schema/settings.ts).               *)
(*                                                                         *)
(* Conventions.  An optional value (T | undefined) is a sequence of        *)
(* length 0 or 1.  A JavaScript string that the code inspects (trim,       *)
(* join) is a sequence of one-character strings.  A function that can      *)
(* throw is an operator returning Return(v) or Throw(e).                   *)
(***************************************************************************)
EXTENDS Integers, Sequences, FiniteSets, TLC

VARIABLES
    pc,        \* "new" (no adapter), "idle", then "returned" or "threw", or
               \* "streaming" and then "done" or "failed"
    apiKey,    \* this.client.apiKey (optional string)
    call,      \* the call in progress or last made: [op, model, request]
    sent,      \* payloads handed to client.messages.create, in order
    thrown,    \* the error the call rejected with (optional)
    returned,  \* the value the call resolved with (optional)
    acc,       \* streamResponseGenerator's locals: messageId, model, usage
    consumed,  \* vendor events the generator has taken from the stream
    emitted,   \* canonical chunks delivered to the caller, in order
    aborted,   \* options.signal has fired
    genError,  \* the error the generator threw (optional)
    streams,   \* two streamResponse calls on the one adapter: for each, its
               \* position and its generator's locals, events and chunks
    mig,       \* migrateSettings: its position and locals
    modal      \* the chat model settings modal: the form's state and
               \* plugin.settings

vars == <<pc, apiKey, call, sent, thrown, returned,
          acc, consumed, emitted, aborted, genError, streams, mig, modal>>

callVars == <<call, sent, thrown, returned>>
genVars  == <<acc, consumed, emitted, aborted, genError>>

---------------------------------------------------------------------------
(* Bounds of the model *)

MaxMsgs == 2      \* messages per request
MaxEvents == 4    \* vendor events per stream
MaxTok == 2       \* token amounts a vendor event reports: 0..MaxTok

---------------------------------------------------------------------------
(* Results of functions that may throw *)

Return(v) == [ok |-> TRUE, value |-> v]
Throw(e)  == [ok |-> FALSE, error |-> e]

\* r; then K on its value, unless r threw
Then(r, K(_)) == IF r.ok THEN K(r.value) ELSE r

\* The results of a map whose callback may throw: the first throw, in order,
\* ends the map.
Collect(rs) ==
    IF \E i \in 1..Len(rs) : ~rs[i].ok
    THEN rs[CHOOSE i \in 1..Len(rs) : ~rs[i].ok /\ \A j \in 1..(i - 1) : rs[j].ok]
    ELSE Return([i \in 1..Len(rs) |-> rs[i].value])

\* Array.prototype.map
Map(s, F(_)) == [i \in 1..Len(s) |-> F(s[i])]

Err(kind) == [kind |-> kind]

---------------------------------------------------------------------------
(* Canonical request model: src/unnamed/part_000 *)

Str(s)    == [kind |-> "string", str |-> s]
Parts(ps) == [kind |-> "parts", parts |-> ps]

TextContent(t)       == [type |-> "text", text |-> t]
ImageContentPart(u)  == [type |-> "image_url", image_url |-> [url |-> u]]

DataUrl(mime, data) == <<"data:", mime, ";base64,", data>>

Roles == {"user", "assistant", "system"}

StringContents == { <<>>, <<" ">>, <<"H", "i">> }

PartsContents ==
    { <<>>,
      <<TextContent(<<"H", "i">>), ImageContentPart(DataUrl("image/png", "AAAA"))>>,
      <<ImageContentPart(DataUrl("image/bmp", "BBBB"))>>,
      <<ImageContentPart(<<"not-a-data-url">>)>> }

Contents == {Str(s) : s \in StringContents} \cup {Parts(p) : p \in PartsContents}

RequestMessage == [role : Roles, content : Contents]

SeqsUpTo(S, n) == UNION {[1..k -> S] : k \in 0..n}

MaxTokensOptions == { <<>>, <<1>>, <<16384>> }

LLMRequest ==
    [messages : SeqsUpTo(RequestMessage, MaxMsgs),
     model : {"claude-3-7-sonnet-latest"},
     max_tokens : MaxTokensOptions,
     temperature : {<<1>>},
     top_p : {<<>>}]

ChatModel ==
    [providerType : {"anthropic", "openai"},
     thinking : { <<>>, <<[budget_tokens |-> 1024]>> }]

ApiKeys == { <<>>, <<"">>, <<"sk-ant-1">> }

---------------------------------------------------------------------------
(* Helpers on strings and arrays *)

\* Array.prototype.includes, String.prototype.includes on fragments
Includes(s, x) == \E i \in 1..Len(s) : s[i] = x

WhiteSpace == {" ", "\t", "\n"}

RECURSIVE TrimStart(_)
TrimStart(s) ==
    IF s # <<>> /\ Head(s) \in WhiteSpace THEN TrimStart(Tail(s)) ELSE s

RECURSIVE TrimEnd(_)
TrimEnd(s) ==
    IF s # <<>> /\ s[Len(s)] \in WhiteSpace
    THEN TrimEnd(SubSeq(s, 1, Len(s) - 1))
    ELSE s

\* String.prototype.trim
Trim(s) == TrimEnd(TrimStart(s))

RECURSIVE Join(_)
\* Array.prototype.join('') on an array of strings
Join(strings) ==
    IF strings = <<>> THEN <<>> ELSE Head(strings) \o Join(Tail(strings))

---------------------------------------------------------------------------
(* Image Source Resolver: utils/llm/image (parseImageDataUrl) *)

\* decode(reference) -> {mimeType, base64Data}; a reference that is not an
\* embedded-data reference (scheme, mime type, encoded payload) fails.
parseImageDataUrl(url) ==
    IF Len(url) = 4 /\ url[1] = "data:" /\ url[3] = ";base64," /\ url[4] # ""
    THEN Return([mimeType |-> url[2], base64Data |-> url[4]])
    ELSE Throw(Err("MalformedImageReference"))

---------------------------------------------------------------------------
(* Static helpers of AnthropicProvider *)

DEFAULT_MAX_TOKENS == 8192

SUPPORTED_IMAGE_TYPES == <<"image/jpeg", "image/png", "image/gif", "image/webp">>

validateImageType(mimeType) ==
    IF ~Includes(SUPPORTED_IMAGE_TYPES, mimeType)
    THEN Throw(Err("UnsupportedImageType"))
    ELSE Return(<<>>)

\* Mutant: a string is empty only when it has no character at all
isMessageEmpty_NoTrim(message) ==
    IF message.content.kind = "string"
    THEN message.content.str = <<>>
    ELSE Len(message.content.parts) = 0

\* Lines 401-406
isMessageEmpty(message) ==
    IF message.content.kind = "string"
    THEN Trim(message.content.str) = <<>>
    ELSE Len(message.content.parts) = 0

\* Mutant: the count of system messages is not checked; the first one is used
SoleSystemMessage_FirstOfMany(systemMessages) ==
    IF Len(systemMessages) = 0
    THEN Return(<<>>)
    ELSE IF systemMessages[1].content.kind # "string"
    THEN Throw(Err("UnsupportedRequestShape"))
    ELSE Return(<<systemMessages[1].content.str>>)

\* Mutant: an empty system message is treated as absent
SoleSystemMessage_FalsyDropped(systemMessages) ==
    IF Len(systemMessages) > 1
    THEN Throw(Err("UnsupportedRequestShape"))
    ELSE IF Len(systemMessages) = 0
    THEN Return(<<>>)
    ELSE IF systemMessages[1].content.kind # "string"
    THEN Throw(Err("UnsupportedRequestShape"))
    ELSE IF systemMessages[1].content.str = <<>>
    THEN Return(<<>>)
    ELSE Return(<<systemMessages[1].content.str>>)

\* Lines 388-398, given the system messages.  In
\* `systemMessage && typeof systemMessage !== 'string'` the empty string is
\* falsy and every array (the empty one too) is truthy.
SoleSystemMessage(systemMessages) ==
    IF Len(systemMessages) > 1
    THEN Throw(Err("UnsupportedRequestShape"))
    ELSE IF Len(systemMessages) = 0
    THEN Return(<<>>)
    ELSE IF systemMessages[1].content.kind # "string"
    THEN Throw(Err("UnsupportedRequestShape"))
    ELSE Return(<<systemMessages[1].content.str>>)

validateSystemMessages(messages) ==
    SoleSystemMessage(SelectSeq(messages, LAMBDA m : m.role = "system"))

ImageBlockParam(parsed) ==
    [type |-> "image",
     source |-> [data |-> parsed.base64Data,
                 media_type |-> parsed.mimeType,
                 type |-> "base64"]]

\* One element of message.content.map(...) for a user message
parseContentPart(part) ==
    IF part.type = "text"
    THEN Return([type |-> "text", text |-> part.text])
    ELSE Then(parseImageDataUrl(part.image_url.url),
              LAMBDA parsed :
                  Then(validateImageType(parsed.mimeType),
                       LAMBDA valid : Return(ImageBlockParam(parsed))))

UserBlocks(content) == [role |-> "user", content |-> [kind |-> "blocks", blocks |-> content]]

\* A user message with array content is translated part by part; every other
\* message keeps its content as it is (`message.content as string` is a
\* compile-time cast only).
parseRequestMessage(message) ==
    IF message.role # "user" /\ message.role # "assistant"
    THEN Throw(Err("UnsupportedRole"))
    ELSE IF message.role = "user" /\ message.content.kind = "parts"
    THEN Then(Collect(Map(message.content.parts, parseContentPart)),
              LAMBDA content : Return(UserBlocks(content)))
    ELSE Return([role |-> message.role, content |-> message.content])

\* request.messages.filter(not system).filter(not empty).map(parseRequestMessage)
TransmittedMessages(messages) ==
    Collect(Map(SelectSeq(SelectSeq(messages, LAMBDA m : m.role # "system"),
                          LAMBDA m : ~isMessageEmpty(m)),
                parseRequestMessage))

\* max_tokens: request.max_tokens ?? (thinking ? budget + DEFAULT : DEFAULT)
MaxTokensParam(model, request) ==
    IF request.max_tokens # <<>>
    THEN request.max_tokens[1]
    ELSE IF model.thinking # <<>>
         THEN model.thinking[1].budget_tokens + DEFAULT_MAX_TOKENS
         ELSE DEFAULT_MAX_TOKENS

ThinkingParam(model) ==
    IF model.thinking # <<>>
    THEN <<[type |-> "enabled", budget_tokens |-> model.thinking[1].budget_tokens]>>
    ELSE <<>>

\* The first argument of client.messages.create; building it can throw
\* (parseRequestMessage inside the map) before create is called.
CreateParams(model, request, systemMessage, stream) ==
    Then(TransmittedMessages(request.messages),
         LAMBDA messages :
             Return([model |-> request.model,
                     messages |-> messages,
                     system |-> systemMessage,
                     thinking |-> ThinkingParam(model),
                     max_tokens |-> MaxTokensParam(model, request),
                     temperature |-> request.temperature,
                     top_p |-> request.top_p,
                     stream |-> stream]))

---------------------------------------------------------------------------
(* The vendor transport: what client.messages.create can answer *)

CORS_TEXT == "CORS requests are not allowed for this Organization"

\* An error of the vendor SDK; message is the text in fragments, so that
\* String.prototype.includes is a search for a fragment.
VendorError(class, message) ==
    [kind |-> "VendorError", class |-> class, message |-> message]

VendorErrors ==
    { VendorError("AuthenticationError", <<"401 ", CORS_TEXT>>),
      VendorError("AuthenticationError", <<"401 invalid x-api-key">>),
      VendorError("PermissionDeniedError", <<"403 ", CORS_TEXT>>),
      VendorError("RateLimitError", <<"429 rate_limit_error">>),
      VendorError("APIUserAbortError", <<"Request was aborted.">>) }

VendorContents ==
    { <<[type |-> "text", text |-> <<"O", "k">>]>>,
      <<[type |-> "thinking", thinking |-> <<"h", "m">>],
        [type |-> "text", text |-> <<"O", "k">>]>>,
      <<[type |-> "tool_use"]>>,
      <<[type |-> "text", text |-> <<"O", "k">>], [type |-> "tool_use"]>>,
      <<>> }

\* Anthropic.Message
VendorMessages ==
    { [id |-> "msg_1", model |-> "claude-a", role |-> "assistant",
       stop_reason |-> "end_turn", content |-> c,
       usage |-> [input_tokens |-> 3, output_tokens |-> 2]] : c \in VendorContents }

NonStreamingOutcomes ==
    {[kind |-> "ok", reply |-> m] : m \in VendorMessages}
        \cup {[kind |-> "error", error |-> e] : e \in VendorErrors}

StreamingOutcomes ==
    {[kind |-> "ok"]} \cup {[kind |-> "error", error |-> e] : e \in VendorErrors}

\* Mutant: the CORS text is looked for before the class of the error
HandleTransportError_TextFirst(error) ==
    IF error.kind = "VendorError" /\ Includes(error.message, CORS_TEXT)
    THEN [kind |-> "APIKeyInvalid", variant |-> "cors", cause |-> error]
    ELSE IF error.kind = "VendorError" /\ error.class = "AuthenticationError"
    THEN [kind |-> "APIKeyInvalid", variant |-> "generic", cause |-> error]
    ELSE error

\* The catch block shared by generateResponse and streamResponse: the error
\* the call rejects with, given the error caught.
HandleTransportError(error) ==
    IF error.kind = "VendorError" /\ error.class = "AuthenticationError"
    THEN IF Includes(error.message, CORS_TEXT)
         THEN [kind |-> "APIKeyInvalid", variant |-> "cors", cause |-> error]
         ELSE [kind |-> "APIKeyInvalid", variant |-> "generic", cause |-> error]
    ELSE error

\* response.content.filter(c => c.type === 'text').map(c => c.text).join('')
TextContentOf(content) ==
    Join(Map(SelectSeq(content, LAMBDA c : c.type = "text"), LAMBDA c : c.text))

\* ...filter(c => c.type === 'thinking').map(c => c.thinking).join('') || undefined
ReasoningContentOf(content) ==
    Join(Map(SelectSeq(content, LAMBDA c : c.type = "thinking"), LAMBDA c : c.thinking))

OrUndefined(s) == IF s = <<>> THEN <<>> ELSE <<s>>

\* response.content[0] of an empty content array is undefined, and reading
\* its type is a TypeError.
parseNonStreamingResponse(response) ==
    IF response.content = <<>>
    THEN Throw(Err("TypeError"))
    ELSE IF response.content[1].type = "tool_use"
    THEN Throw(Err("UnsupportedContentType"))
    ELSE Return([id |-> response.id,
                 choices |-> <<[finish_reason |-> response.stop_reason,
                                message |-> [content |-> TextContentOf(response.content),
                                             reasoning |->
                                                 OrUndefined(ReasoningContentOf(response.content)),
                                             role |-> response.role]]>>,
                 model |-> response.model,
                 object |-> "chat.completion",
                 usage |-> [prompt_tokens |-> response.usage.input_tokens,
                            completion_tokens |-> response.usage.output_tokens,
                            total_tokens |-> response.usage.input_tokens
                                               + response.usage.output_tokens]])

---------------------------------------------------------------------------
(* generateResponse and streamResponse as functions of their inputs and of *)
(* the transport's answer: what is sent, thrown and returned.              *)

Outcome(s, t, r) == [sent |-> s, thrown |-> t, returned |-> r]

\* `!this.client.apiKey`
ApiKeyMissing(key) == key = <<>> \/ key[1] = ""

\* Mutant: the system messages are validated before the key is checked
Preconditions_KeyCheckedLast(key, model, request) ==
    IF model.providerType # "anthropic"
    THEN Throw(Err("ModelProviderMismatch"))
    ELSE Then(validateSystemMessages(request.messages),
              LAMBDA systemMessage :
                  IF ApiKeyMissing(key)
                  THEN Throw(Err("APIKeyNotSet"))
                  ELSE Return(systemMessage))

\* Lines 54-66 and 143-155: the checks before the try block
Preconditions(key, model, request) ==
    IF model.providerType # "anthropic"
    THEN Throw(Err("ModelProviderMismatch"))
    ELSE IF ApiKeyMissing(key)
    THEN Throw(Err("APIKeyNotSet"))
    ELSE validateSystemMessages(request.messages)

\* A throw before the try block rejects the call with the error as it is
BeforeTry(r, K(_)) ==
    IF r.ok THEN K(r.value) ELSE Outcome(<<>>, <<r.error>>, <<>>)

\* A throw while the argument of create is built is inside the try block
BuildingParams(r, K(_)) ==
    IF r.ok THEN K(r.value) ELSE Outcome(<<>>, <<HandleTransportError(r.error)>>, <<>>)

\* `return parseNonStreamingResponse(response)` inside the try block
ReturnParsed(params, response) ==
    IF response.ok
    THEN Outcome(<<params>>, <<>>, <<response.value>>)
    ELSE Outcome(<<params>>, <<HandleTransportError(response.error)>>, <<>>)

generateResponse(key, model, request, outcome) ==
    BeforeTry(Preconditions(key, model, request),
        LAMBDA systemMessage :
            BuildingParams(CreateParams(model, request, systemMessage, <<>>),
                LAMBDA params :
                    IF outcome.kind = "error"
                    THEN Outcome(<<params>>, <<HandleTransportError(outcome.error)>>, <<>>)
                    ELSE ReturnParsed(params, parseNonStreamingResponse(outcome.reply))))

\* Mutant: the streaming payload is built as for a model without thinking
streamResponse_NoThinking(key, model, request, outcome) ==
    BeforeTry(Preconditions(key, model, request),
        LAMBDA systemMessage :
            BuildingParams(CreateParams([model EXCEPT !.thinking = <<>>], request,
                                        systemMessage, <<TRUE>>),
                LAMBDA params :
                    IF outcome.kind = "error"
                    THEN Outcome(<<params>>, <<HandleTransportError(outcome.error)>>, <<>>)
                    ELSE Outcome(<<params>>, <<>>, <<[object |-> "AsyncGenerator"]>>)))

streamResponse(key, model, request, outcome) ==
    BeforeTry(Preconditions(key, model, request),
        LAMBDA systemMessage :
            BuildingParams(CreateParams(model, request, systemMessage, <<TRUE>>),
                LAMBDA params :
                    IF outcome.kind = "error"
                    THEN Outcome(<<params>>, <<HandleTransportError(outcome.error)>>, <<>>)
                    ELSE Outcome(<<params>>, <<>>, <<[object |-> "AsyncGenerator"]>>)))

---------------------------------------------------------------------------
(* The streaming generator: lines 228-274 and 353-382 *)

MessageStartEvents ==
    { [type |-> "message_start",
       message |-> [id |-> "msg_1", model |-> "claude-a",
                    usage |-> [input_tokens |-> 1, output_tokens |-> 0]]],
      [type |-> "message_start",
       message |-> [id |-> "msg_2", model |-> "claude-b",
                    usage |-> [input_tokens |-> 2, output_tokens |-> 1]]] }

Deltas ==
    { [type |-> "text_delta", text |-> <<"O", "k">>],
      [type |-> "thinking_delta", thinking |-> <<"h", "m">>],
      [type |-> "signature_delta", signature |-> <<"s">>],
      [type |-> "input_json_delta", partial_json |-> <<"{">>] }

ContentBlockDeltaEvents ==
    {[type |-> "content_block_delta", delta |-> d] : d \in Deltas}

MessageDeltaEvents ==
    {[type |-> "message_delta", usage |-> [output_tokens |-> n]] : n \in 0..MaxTok}

OtherEvents == {[type |-> "content_block_start"], [type |-> "message_stop"]}

MessageStreamEvent ==
    MessageStartEvents \cup ContentBlockDeltaEvents \cup MessageDeltaEvents
        \cup OtherEvents

\* Mutant: a tool-invocation delta is translated to a chunk with an empty delta
parseStreamingResponseChunk_ToolIgnored(chunk, messageId, model) ==
    IF chunk.type # "content_block_delta"
    THEN Throw(Err("UnsupportedChunkType"))
    ELSE Return([id |-> messageId,
                 choices |-> <<[finish_reason |-> <<>>,
                                delta |-> [content |-> IF chunk.delta.type = "text_delta"
                                                       THEN <<chunk.delta.text>>
                                                       ELSE <<>>,
                                           reasoning |-> IF chunk.delta.type = "thinking_delta"
                                                         THEN <<chunk.delta.thinking>>
                                                         ELSE <<>>]]>>,
                 object |-> "chat.completion.chunk",
                 model |-> model,
                 usage |-> <<>>])

\* Mutant: the text of a thinking delta is also delivered as content
parseStreamingResponseChunk_ThinkingAsContent(chunk, messageId, model) ==
    IF chunk.type # "content_block_delta"
    THEN Throw(Err("UnsupportedChunkType"))
    ELSE IF chunk.delta.type = "input_json_delta"
    THEN Throw(Err("UnsupportedContentType"))
    ELSE Return([id |-> messageId,
                 choices |-> <<[finish_reason |-> <<>>,
                                delta |-> [content |-> IF chunk.delta.type = "text_delta"
                                                       THEN <<chunk.delta.text>>
                                                       ELSE IF chunk.delta.type = "thinking_delta"
                                                       THEN <<chunk.delta.thinking>>
                                                       ELSE <<>>,
                                           reasoning |-> IF chunk.delta.type = "thinking_delta"
                                                         THEN <<chunk.delta.thinking>>
                                                         ELSE <<>>]]>>,
                 object |-> "chat.completion.chunk",
                 model |-> model,
                 usage |-> <<>>])

\* Lines 353-382
parseStreamingResponseChunk(chunk, messageId, model) ==
    IF chunk.type # "content_block_delta"
    THEN Throw(Err("UnsupportedChunkType"))
    ELSE IF chunk.delta.type = "input_json_delta"
    THEN Throw(Err("UnsupportedContentType"))
    ELSE Return([id |-> messageId,
                 choices |-> <<[finish_reason |-> <<>>,
                                delta |-> [content |-> IF chunk.delta.type = "text_delta"
                                                       THEN <<chunk.delta.text>>
                                                       ELSE <<>>,
                                           reasoning |-> IF chunk.delta.type = "thinking_delta"
                                                         THEN <<chunk.delta.thinking>>
                                                         ELSE <<>>]]>>,
                 object |-> "chat.completion.chunk",
                 model |-> model,
                 usage |-> <<>>])

\* Lines 231-237: the generator's locals before the first event
InitialAccumulator ==
    [messageId |-> "", model |-> "",
     usage |-> [prompt_tokens |-> 0, completion_tokens |-> 0, total_tokens |-> 0]]

Step(a, y, e) == [acc |-> a, yield |-> y, error |-> e]

\* `yield parseStreamingResponseChunk(...)`: a chunk, or the throw
YieldParsed(a, parsed) ==
    IF parsed.ok THEN Step(a, <<parsed.value>>, <<>>) ELSE Step(a, <<>>, <<parsed.error>>)

\* Mutant: the stream-start event sets the id and the usage, not the model
OnMessageStart_ModelKept(a, chunk) ==
    [messageId |-> chunk.message.id,
     model |-> a.model,
     usage |-> [prompt_tokens |-> chunk.message.usage.input_tokens,
                completion_tokens |-> chunk.message.usage.output_tokens,
                total_tokens |-> chunk.message.usage.input_tokens
                                   + chunk.message.usage.output_tokens]]

\* Lines 243-249
OnMessageStart(a, chunk) ==
    [messageId |-> chunk.message.id,
     model |-> chunk.message.model,
     usage |-> [prompt_tokens |-> chunk.message.usage.input_tokens,
                completion_tokens |-> chunk.message.usage.output_tokens,
                total_tokens |-> chunk.message.usage.input_tokens
                                   + chunk.message.usage.output_tokens]]

\* Mutant: a metadata delta adds to completion_tokens and leaves total_tokens
OnMessageDelta_TotalKept(a, chunk) ==
    [messageId |-> a.messageId,
     model |-> a.model,
     usage |-> [prompt_tokens |-> a.usage.prompt_tokens,
                completion_tokens |-> a.usage.completion_tokens
                                        + chunk.usage.output_tokens,
                total_tokens |-> a.usage.total_tokens]]

\* Mutant: a metadata delta overwrites the running count instead of adding
OnMessageDelta_Overwrite(a, chunk) ==
    [messageId |-> a.messageId,
     model |-> a.model,
     usage |-> [prompt_tokens |-> a.usage.prompt_tokens,
                completion_tokens |-> chunk.usage.output_tokens,
                total_tokens |-> a.usage.prompt_tokens + chunk.usage.output_tokens]]

\* Lines 257-262
OnMessageDelta(a, chunk) ==
    [messageId |-> a.messageId,
     model |-> a.model,
     usage |-> [prompt_tokens |-> a.usage.prompt_tokens,
                completion_tokens |-> a.usage.completion_tokens
                                        + chunk.usage.output_tokens,
                total_tokens |-> a.usage.total_tokens + chunk.usage.output_tokens]]

\* Mutant: a metadata delta also yields a chunk, with the usage so far
streamResponseGenerator_UsageChunks(a, chunk) ==
    IF chunk.type = "message_start"
    THEN Step(OnMessageStart(a, chunk), <<>>, <<>>)
    ELSE IF chunk.type = "content_block_delta"
    THEN YieldParsed(a, parseStreamingResponseChunk(chunk, a.messageId, a.model))
    ELSE IF chunk.type = "message_delta"
    THEN Step(OnMessageDelta(a, chunk),
              <<[id |-> a.messageId, choices |-> <<>>,
                 object |-> "chat.completion.chunk", model |-> a.model,
                 usage |-> <<OnMessageDelta(a, chunk).usage>>]>>,
              <<>>)
    ELSE Step(a, <<>>, <<>>)

\* The body of the for-await loop (lines 240-263) for one vendor event:
\* the locals after it, the chunk yielded (optional), the error thrown (optional)
streamResponseGenerator(a, chunk) ==
    IF chunk.type = "message_start"
    THEN Step(OnMessageStart(a, chunk), <<>>, <<>>)
    ELSE IF chunk.type = "content_block_delta"
    THEN YieldParsed(a, parseStreamingResponseChunk(chunk, a.messageId, a.model))
    ELSE IF chunk.type = "message_delta"
    THEN Step(OnMessageDelta(a, chunk), <<>>, <<>>)
    ELSE Step(a, <<>>, <<>>)

\* Mutant: the final chunk is yielded without usage
FinalChunk_NoUsage(a) ==
    [id |-> a.messageId, choices |-> <<>>, object |-> "chat.completion.chunk",
     model |-> a.model, usage |-> <<>>]

\* Lines 267-273: the chunk yielded after the loop
FinalChunk(a) ==
    [id |-> a.messageId,
     choices |-> <<>>,
     object |-> "chat.completion.chunk",
     model |-> a.model,
     usage |-> <<a.usage>>]

---------------------------------------------------------------------------
(* State machine *)

NoCall == [op |-> "none"]

\* The two concurrent streaming calls
Calls == {1, 2}

\* A generator before its first event, and the same for a call not made yet
Opened == [pc |-> "streaming", acc |-> InitialAccumulator, consumed |-> <<>>,
           emitted |-> <<>>, error |-> <<>>]
NotCalled == [Opened EXCEPT !.pc = "none"]

\* parseSmartComposerSettings has not been called
NotLoaded == [pc |-> "none"]

\* The settings modal has not been opened
NotOpened == [pc |-> "none", last |-> "none"]

Init ==
    /\ pc = "new"
    /\ apiKey = <<>>
    /\ call = NoCall
    /\ sent = <<>>
    /\ thrown = <<>>
    /\ returned = <<>>
    /\ acc = InitialAccumulator
    /\ consumed = <<>>
    /\ emitted = <<>>
    /\ aborted = FALSE
    /\ genError = <<>>
    /\ streams = [c \in Calls |-> NotCalled]
    /\ mig = NotLoaded
    /\ modal = NotOpened

\* new AnthropicProvider(provider): the key is stored, never checked
Construct ==
    /\ pc = "new"
    /\ \E key \in ApiKeys : apiKey' = key
    /\ pc' = "idle"
    /\ UNCHANGED <<callVars, genVars, streams, mig, modal>>

\* The transport answers only a call that reaches create
ReachesTransport(key, model, request) ==
    streamResponse(key, model, request, [kind |-> "ok"]).sent # <<>>

TransportAnswers(S, key, model, request) ==
    IF ReachesTransport(key, model, request) THEN S ELSE {CHOOSE o \in S : TRUE}

\* The call settles: r is what it sent, threw and returned
Settles(op, model, request, outcome, r, resolved) ==
    /\ call' = [op |-> op, model |-> model, request |-> request,
                transport |-> IF r.sent = <<>> THEN <<>> ELSE <<outcome>>]
    /\ sent' = r.sent
    /\ thrown' = r.thrown
    /\ returned' = r.returned
    /\ pc' = IF r.thrown # <<>> THEN "threw" ELSE resolved

GenerateResponse ==
    /\ pc = "idle"
    /\ \E model \in ChatModel, request \in LLMRequest :
         \E outcome \in TransportAnswers(NonStreamingOutcomes, apiKey, model, request) :
            Settles("generateResponse", model, request, outcome,
                    generateResponse(apiKey, model, request, outcome), "returned")
    /\ UNCHANGED <<apiKey, genVars, streams, mig, modal>>

StreamResponseOn(scenarios) ==
    /\ pc = "idle"
    /\ \E sc \in scenarios :
         \E outcome \in TransportAnswers(StreamingOutcomes, apiKey, sc.model, sc.request) :
            Settles("streamResponse", sc.model, sc.request, outcome,
                    streamResponse(apiKey, sc.model, sc.request, outcome), "streaming")
    /\ UNCHANGED <<apiKey, genVars, streams, mig, modal>>

StreamResponse == StreamResponseOn([model : ChatModel, request : LLMRequest])

Next == Construct \/ GenerateResponse \/ StreamResponse

Spec == Init /\ [][Next]_vars

---------------------------------------------------------------------------
(* The stream being consumed.  The caller pulls every chunk; the vendor     *)
(* stream delivers events, ends, or fails.                                  *)

Request(messages) ==
    [messages |-> messages, model |-> "claude-3-7-sonnet-latest",
     max_tokens |-> <<>>, temperature |-> <<1>>, top_p |-> <<>>]

Message(role, content) == [role |-> role, content |-> content]

\* Streaming calls of each outcome: accepted, and rejected in each way
StreamScenarios ==
    { [model |-> [providerType |-> "anthropic", thinking |-> <<>>],
       request |-> Request(<<Message("system", Str(<<"H", "i">>)),
                             Message("user", Str(<<"H", "i">>))>>)],
      [model |-> [providerType |-> "openai", thinking |-> <<>>],
       request |-> Request(<<Message("user", Str(<<"H", "i">>))>>)],
      [model |-> [providerType |-> "anthropic", thinking |-> <<>>],
       request |-> Request(<<Message("system", Str(<<"H", "i">>)),
                             Message("system", Str(<<"H", "i">>))>>)],
      [model |-> [providerType |-> "anthropic", thinking |-> <<>>],
       request |-> Request(<<Message("user",
                       Parts(<<ImageContentPart(DataUrl("image/bmp", "BBBB"))>>))>>)] }

StreamResponseScenario == StreamResponseOn(StreamScenarios)

\* One turn of the for-await loop
Consumes(chunk, step) ==
    /\ consumed' = Append(consumed, chunk)
    /\ acc' = step.acc
    /\ emitted' = emitted \o step.yield
    /\ genError' = step.error
    /\ pc' = IF step.error # <<>> THEN "failed" ELSE "streaming"

ConsumeEvent ==
    /\ pc = "streaming"
    /\ ~aborted
    /\ Len(consumed) < MaxEvents
    /\ \E chunk \in MessageStreamEvent :
          Consumes(chunk, streamResponseGenerator(acc, chunk))
    /\ UNCHANGED <<apiKey, callVars, aborted, streams, mig, modal>>

\* The vendor stream's iterator returns: the loop ends and the generator
\* yields the final chunk.  The generator does not read the signal, so this
\* is also what happens when the transport ends an aborted stream quietly.
StreamExhausted ==
    /\ pc = "streaming"
    /\ emitted' = Append(emitted, FinalChunk(acc))
    /\ pc' = "done"
    /\ UNCHANGED <<apiKey, callVars, acc, consumed, aborted, genError, streams, mig, modal>>

\* The vendor stream's iterator throws: the generator rethrows.  An aborted
\* stream can only fail with the abort error.
StreamFails ==
    /\ pc = "streaming"
    /\ \E e \in VendorErrors :
          /\ aborted <=> e.class = "APIUserAbortError"
          /\ genError' = <<e>>
    /\ pc' = "failed"
    /\ UNCHANGED <<apiKey, callVars, acc, consumed, emitted, aborted, streams, mig, modal>>

\* options.signal fires while the stream is open: the transport delivers no
\* further event, and ends the stream quietly or with the abort error.
Abort ==
    /\ pc = "streaming"
    /\ ~aborted
    /\ aborted' = TRUE
    /\ UNCHANGED <<pc, apiKey, callVars, acc, consumed, emitted, genError, streams, mig, modal>>

NextStream ==
    \/ Construct
    \/ StreamResponseScenario
    \/ ConsumeEvent
    \/ StreamExhausted
    \/ StreamFails
    \/ Abort

SpecStream == Init /\ [][NextStream]_vars

---------------------------------------------------------------------------
(* Vocabulary of the properties *)

Last(s) == s[Len(s)]

Called == call.op # "none"

IsEvent(e, type) == e.type = type

\* Indices of the events of a type among those consumed
EventsOf(type) == {i \in 1..Len(consumed) : IsEvent(consumed[i], type)}

RECURSIVE SumOutputTokens(_, _)
\* The sum of the output-token amounts of the message_delta events at the
\* indices I of the consumed events
SumOutputTokens(I, n) ==
    IF n = 0 THEN 0
    ELSE SumOutputTokens(I, n - 1)
           + (IF n \in I /\ IsEvent(consumed[n], "message_delta")
              THEN consumed[n].usage.output_tokens ELSE 0)

LastStart == IF EventsOf("message_start") = {} THEN 0
             ELSE CHOOSE i \in EventsOf("message_start") :
                      \A j \in EventsOf("message_start") : j <= i

CarriesUsage(chunk) == chunk.usage # <<>>

SystemIndices(request) ==
    {i \in 1..Len(request.messages) : request.messages[i].role = "system"}

AllowedMimeTypes == {"image/jpeg", "image/png", "image/gif", "image/webp"}

\* The message holds an image part that decodes to a mime type outside the
\* allow-list
HasUnsupportedImage(message) ==
    /\ message.content.kind = "parts"
    /\ \E j \in 1..Len(message.content.parts) :
          LET part == message.content.parts[j]
          IN  /\ part.type = "image_url"
              /\ Len(part.image_url.url) = 4
              /\ part.image_url.url[2] \notin AllowedMimeTypes

HasMalformedImage(message) ==
    /\ message.content.kind = "parts"
    /\ \E j \in 1..Len(message.content.parts) :
          LET part == message.content.parts[j]
          IN  part.type = "image_url" /\ Len(part.image_url.url) # 4

KeyPresent == apiKey # <<>> /\ apiKey # <<"">>

---------------------------------------------------------------------------
(* C1: a stream that is exhausted without failure ends with exactly one    *)
(* chunk that has empty choices and carries usage, and no chunk before it   *)
(* carries usage, whatever the vendor events were.                          *)
C1_TerminalChunk ==
    pc = "done" =>
        /\ emitted # <<>>
        /\ Last(emitted).choices = <<>>
        /\ CarriesUsage(Last(emitted))
        /\ \A i \in 1..(Len(emitted) - 1) :
              ~CarriesUsage(emitted[i]) /\ emitted[i].choices # <<>>

\* A stream with no stream-start event, two content chunks and the terminal one
C1_Witness ==
    /\ pc = "done"
    /\ EventsOf("message_start") = {}
    /\ Len(emitted) = 3

(* C2 as stated: the terminal chunk's completion_tokens is the sum of the   *)
(* output-token amounts of the stream's message_delta events.               *)
C2_SumOfDeltas ==
    pc = "done" =>
        Last(emitted).usage[1].completion_tokens
            = SumOutputTokens(1..Len(consumed), Len(consumed))

(* C2, amended: the terminal chunk's completion_tokens is the output-token  *)
(* count of the last stream-start event (0 when there is none) plus the sum *)
(* of the amounts of the message_delta events that follow it.               *)
C2_SeededSum ==
    pc = "done" =>
        Last(emitted).usage[1].completion_tokens
            = (IF LastStart = 0 THEN 0
               ELSE consumed[LastStart].message.usage.output_tokens)
              + SumOutputTokens((LastStart + 1)..Len(consumed), Len(consumed))

\* A start event reporting output tokens, then two metadata deltas
C2_Witness ==
    /\ pc = "done"
    /\ LastStart = 1
    /\ consumed[1].message.usage.output_tokens = 1
    /\ Cardinality(EventsOf("message_delta")) = 2
    /\ Last(emitted).usage[1].completion_tokens = 4

---------------------------------------------------------------------------
(* C3: a call whose request holds an image part with a mime type outside    *)
(* the allow-list, in a message of any role, fails with                     *)
(* UnsupportedImageType and never reaches the transport.  Stated for the    *)
(* calls in which no earlier check decides the outcome: the provider        *)
(* matches, the key is present, the system messages are valid and no image  *)
(* reference is malformed.                                                  *)
C3_UnsupportedImageRejected ==
    ( /\ Called
      /\ call.model.providerType = "anthropic"
      /\ KeyPresent
      /\ Cardinality(SystemIndices(call.request)) <= 1
      /\ \A i \in SystemIndices(call.request) :
            call.request.messages[i].content.kind = "string"
      /\ \A i \in 1..Len(call.request.messages) :
            ~HasMalformedImage(call.request.messages[i])
      /\ \E i \in 1..Len(call.request.messages) :
            HasUnsupportedImage(call.request.messages[i]) )
    => thrown = <<Err("UnsupportedImageType")>> /\ sent = <<>>

(* C4 as stated: a call whose request holds more than one system-role       *)
(* message fails with UnsupportedRequestShape before any transport call.    *)
C4_TwoSystemMessagesRejected ==
    (Called /\ Cardinality(SystemIndices(call.request)) > 1)
        => thrown = <<Err("UnsupportedRequestShape")>> /\ sent = <<>>

(* C4, amended: a call whose request holds more than one system-role        *)
(* message fails before any transport call; the failure is                  *)
(* UnsupportedRequestShape when the model's provider matches and the API    *)
(* key is present, and otherwise the provider-mismatch or missing-key       *)
(* failure, whose checks come first.                                        *)
C4_TwoSystemMessagesNeverSent ==
    (Called /\ Cardinality(SystemIndices(call.request)) > 1)
        => /\ sent = <<>>
           /\ returned = <<>>
           /\ thrown # <<>>
           /\ (call.model.providerType = "anthropic" /\ KeyPresent)
                 => thrown = <<Err("UnsupportedRequestShape")>>
           /\ ~(call.model.providerType = "anthropic" /\ KeyPresent)
                 => thrown[1].kind \in {"ModelProviderMismatch", "APIKeyNotSet"}

\* streamResponse with a key and two system messages
C4_Witness ==
    /\ call.op = "streamResponse"
    /\ KeyPresent
    /\ Cardinality(SystemIndices(call.request)) = 2
    /\ thrown = <<Err("UnsupportedRequestShape")>>
    /\ sent = <<>>

(* C6: a non-streaming call that reaches the transport with exactly one     *)
(* system-role message, of string content, transmits that content as the    *)
(* system field, and no transmitted message has the system role.            *)
C6_SystemFieldExtracted ==
    ( /\ call.op = "generateResponse"
      /\ sent # <<>>
      /\ Cardinality(SystemIndices(call.request)) = 1 )
    => LET i == CHOOSE j \in SystemIndices(call.request) : TRUE
       IN  /\ call.request.messages[i].content.kind = "string"
           /\ sent[1].system = <<call.request.messages[i].content.str>>
           /\ \A k \in 1..Len(sent[1].messages) : sent[1].messages[k].role # "system"

\* "Hi" as the system message after a user message
C6_Witness ==
    /\ call.op = "generateResponse"
    /\ Len(sent) = 1
    /\ Len(call.request.messages) = 2
    /\ call.request.messages[2] = [role |-> "system", content |-> Str(<<"H", "i">>)]
    /\ call.request.messages[1].role = "user"
    /\ sent[1].system = <<<<"H", "i">>>>
    /\ Len(sent[1].messages) = 1

(* C7: on a model with a thinking budget B the transmitted max_tokens is    *)
(* at least B + 8192, whether or not the request supplies max_tokens; with  *)
(* no thinking budget and no request max_tokens it is 8192.                 *)
C7_MaxTokensFloor ==
    sent # <<>> =>
        /\ call.model.thinking # <<>>
              => sent[1].max_tokens >= call.model.thinking[1].budget_tokens + 8192
        /\ (call.model.thinking = <<>> /\ call.request.max_tokens = <<>>)
              => sent[1].max_tokens = 8192

(* C8: on an adapter constructed without an API key, every generateResponse *)
(* and streamResponse with a model of the matching provider fails with      *)
(* APIKeyNotSet and sends nothing, whatever the request.                    *)
C8_MissingKeyDeferred ==
    (Called /\ ~KeyPresent /\ call.model.providerType = "anthropic")
        => /\ thrown = <<Err("APIKeyNotSet")>>
           /\ sent = <<>>
           /\ returned = <<>>

\* The adapter exists without a key; a call with two system messages fails on the key
C8_Witness ==
    /\ apiKey = <<>>
    /\ call.op = "streamResponse"
    /\ call.model.providerType = "anthropic"
    /\ Cardinality(SystemIndices(call.request)) = 2
    /\ thrown = <<Err("APIKeyNotSet")>>

(* C9: when the transport call fails, an authentication failure is thrown   *)
(* as APIKeyInvalid (the CORS variant when the vendor message holds the     *)
(* CORS text, the generic one otherwise), and any other failure is thrown   *)
(* as the same error, by generateResponse and by streamResponse.            *)
C9_TransportErrorClassified ==
    (Called /\ call.transport # <<>> /\ call.transport[1].kind = "error")
        => LET e == call.transport[1].error
           IN  /\ returned = <<>>
               /\ Len(thrown) = 1
               /\ e.class = "AuthenticationError"
                     => /\ thrown[1].kind = "APIKeyInvalid"
                        /\ thrown[1].cause = e
                        /\ thrown[1].variant = "cors"
                              <=> (\E i \in 1..Len(e.message) : e.message[i] = CORS_TEXT)
                        /\ thrown[1].variant \in {"cors", "generic"}
               /\ e.class # "AuthenticationError" => thrown[1] = e

\* A non-authentication failure whose text holds the CORS sentence passes through
C9_Witness ==
    /\ call.op = "streamResponse"
    /\ call.transport # <<>>
    /\ call.transport[1].kind = "error"
    /\ call.transport[1].error.class = "PermissionDeniedError"
    /\ thrown = <<call.transport[1].error>>

---------------------------------------------------------------------------
(* C5: once the cancellation signal has fired during a streaming call, the  *)
(* chunk sequence ends with the chunks emitted so far: no further chunk is  *)
(* emitted, and the usage-bearing terminal chunk is never produced.         *)
C5_NoChunkAfterAbort ==
    aborted => \A i \in 1..Len(emitted) : ~CarriesUsage(emitted[i])

(* C10 as stated: no error of the taxonomy, UnsupportedContentType for a    *)
(* tool-invocation delta included, is raised by a streaming call after a    *)
(* chunk has been delivered.                                                *)
TaxonomyKinds ==
    {"APIKeyNotSet", "APIKeyInvalid", "ModelProviderMismatch",
     "UnsupportedRequestShape", "UnsupportedImageType",
     "MalformedImageReference", "UnsupportedContentType"}

C10_NoErrorAfterChunk ==
    \A e \in {thrown, genError} :
        (e # <<>> /\ e[1].kind \in TaxonomyKinds) => emitted = <<>>

(* C10, amended: every error raised by the streamResponse call itself       *)
(* (provider mismatch, missing or invalid key, request shape, image type)   *)
(* is raised before any vendor event is consumed or chunk delivered;        *)
(* UnsupportedContentType for a tool-invocation delta is raised by the      *)
(* consumption that reaches that delta, after the chunks of the content     *)
(* deltas before it have been delivered, and no chunk follows it.           *)
ToolDeltas ==
    {i \in EventsOf("content_block_delta") : consumed[i].delta.type = "input_json_delta"}

C10_ErrorAtItsEvent ==
    /\ thrown # <<>> => emitted = <<>> /\ consumed = <<>> /\ pc = "threw"
    /\ ToolDeltas # {} =>
          /\ ToolDeltas = {Len(consumed)}
          /\ genError = <<Err("UnsupportedContentType")>>
          /\ pc = "failed"
          /\ Len(emitted) = Cardinality(EventsOf("content_block_delta")) - 1
    /\ genError = <<Err("UnsupportedContentType")>> => ToolDeltas # {}

\* Two chunks delivered, then the tool-invocation delta
C10_Witness ==
    /\ genError = <<Err("UnsupportedContentType")>>
    /\ Len(emitted) = 2
    /\ Len(consumed) = 3

---------------------------------------------------------------------------
\* The transport answered the call with a vendor message
Replied == Called /\ call.transport # <<>> /\ call.transport[1].kind = "ok"

\* Indices of the tool-invocation segments of a vendor message's content
ToolSegments(content) == {i \in 1..Len(content) : content[i].type = "tool_use"}

(* C12: generateResponse never returns a response for a vendor reply that   *)
(* holds a tool-invocation segment: the call fails with                     *)
(* UnsupportedContentType, so that no tool segment is silently dropped.     *)
C12_ToolUseRejected ==
    ( /\ call.op = "generateResponse"
      /\ Replied
      /\ ToolSegments(call.transport[1].reply.content) # {} )
    => /\ returned = <<>>
       /\ thrown = <<Err("UnsupportedContentType")>>

(* C13: a message of a role other than user that has multi-part content is  *)
(* rejected or transmitted with plain-string content: no transmitted        *)
(* message of a non-user role has multi-part content.                       *)
C13_PartsOnlyForUser ==
    \A k \in 1..Len(sent) :
        \A i \in 1..Len(sent[k].messages) :
            sent[k].messages[i].role # "user"
                => sent[k].messages[i].content.kind = "string"

---------------------------------------------------------------------------
\* The claim's empty message: a string of whitespace only, or no part at all
Blank(message) ==
    IF message.content.kind = "string"
    THEN \A i \in 1..Len(message.content.str) : message.content.str[i] \in WhiteSpace
    ELSE message.content.parts = <<>>

\* The messages of the request that are neither system messages nor empty
Kept(request) == SelectSeq(request.messages, LAMBDA m : m.role # "system" /\ ~Blank(m))

\* The transmitted message t is the translation of the request's message m
TranslationOf(t, m) ==
    /\ t.role = m.role
    /\ IF m.role = "user" /\ m.content.kind = "parts"
       THEN /\ t.content.kind = "blocks"
            /\ Len(t.content.blocks) = Len(m.content.parts)
            /\ \A j \in 1..Len(m.content.parts) :
                  (t.content.blocks[j].type = "text") <=> (m.content.parts[j].type = "text")
       ELSE t.content = m.content

\* The request without its empty non-system messages
WithoutBlank(request) ==
    [request EXCEPT !.messages =
        SelectSeq(request.messages, LAMBDA m : m.role = "system" \/ ~Blank(m))]

\* The transport's answer in the call made; any answer when it was not reached
AnswerOf(c) == IF c.transport # <<>> THEN c.transport[1] ELSE [kind |-> "ok"]

(* C16: the messages a call transmits are the request's messages that are   *)
(* neither system messages nor empty, each translated, in their original    *)
(* order; and the empty messages change nothing of the call's outcome: it   *)
(* sends, throws and returns what the same call without them does.          *)
C16_TransmittedSubsequence ==
    /\ sent # <<>> =>
          /\ Len(sent[1].messages) = Len(Kept(call.request))
          /\ \A i \in 1..Len(sent[1].messages) :
                TranslationOf(sent[1].messages[i], Kept(call.request)[i])
    /\ Called =>
          Outcome(sent, thrown, returned)
              = IF call.op = "generateResponse"
                THEN generateResponse(apiKey, call.model, WithoutBlank(call.request),
                                      AnswerOf(call))
                ELSE streamResponse(apiKey, call.model, WithoutBlank(call.request),
                                    AnswerOf(call))

\* A whitespace-only message before a user message: one message is transmitted
C16_Witness ==
    /\ call.op = "generateResponse"
    /\ Len(call.request.messages) = 2
    /\ call.request.messages[1] = [role |-> "assistant", content |-> Str(<<" ">>)]
    /\ call.request.messages[2].role = "user"
    /\ Len(sent) = 1
    /\ Len(sent[1].messages) = 1
    /\ sent[1].messages[1].role = "user"
    /\ returned # <<>>

---------------------------------------------------------------------------
\* The transport call rejects with e
TransportFails(e) == [kind |-> "error", error |-> e]

\* g and s are what generateResponse and streamResponse send and throw on the
\* same inputs and the same failure of the transport: the same throw, and
\* payloads that differ in the stream flag only
SameUpToTransport(g, s) ==
    /\ (g.sent = <<>>) <=> (s.sent = <<>>)
    /\ g.sent = <<>> => g.thrown # <<>> /\ g.thrown = s.thrown
    /\ g.sent # <<>> =>
          /\ g.thrown = s.thrown
          /\ g.sent[1].stream = <<>>
          /\ s.sent[1].stream = <<TRUE>>
          /\ [s.sent[1] EXCEPT !.stream = <<>>] = g.sent[1]

\* The failure of the transport in the call made, or some failure when the
\* transport answered or was not reached
FailureOf(c) ==
    IF c.transport # <<>> /\ c.transport[1].kind = "error"
    THEN c.transport[1]
    ELSE TransportFails(Err("none"))

\* g and s agree with each other, and the one of the handler called sent what
\* the call sent
AsTheCallAndEachOther(g, s) ==
    /\ SameUpToTransport(g, s)
    /\ sent = IF call.op = "generateResponse" THEN g.sent ELSE s.sent

(* C17: on the same adapter, model and request, streamResponse and          *)
(* generateResponse have the same outcome up to the transport call: they    *)
(* throw the same error in the same cases, and the payloads they transmit   *)
(* are equal but for stream = true; a failure of the transport call is      *)
(* thrown as the same error by both.                                        *)
C17_SameUpToTransport ==
    Called =>
        AsTheCallAndEachOther(
            generateResponse(apiKey, call.model, call.request, FailureOf(call)),
            streamResponse(apiKey, call.model, call.request, FailureOf(call)))

\* A streaming call on a thinking model with no max_tokens: the payload holds
\* the budget, the raised max_tokens and the stream flag
C17_Witness ==
    /\ call.op = "streamResponse"
    /\ call.model.thinking # <<>>
    /\ call.request.max_tokens = <<>>
    /\ Len(sent) = 1
    /\ sent[1].stream = <<TRUE>>
    /\ sent[1].max_tokens = 1024 + 8192
    /\ sent[1].thinking # <<>>
    /\ Len(sent[1].messages) = 2

---------------------------------------------------------------------------
\* The content-delta events consumed, in the order the vendor sent them
ContentDeltas == SelectSeq(consumed, LAMBDA e : IsEvent(e, "content_block_delta"))

\* The chunk carries the text or the reasoning of the delta
CarriesDelta(chunk, delta) ==
    /\ Len(chunk.choices) = 1
    /\ delta.type = "text_delta" => chunk.choices[1].delta.content = <<delta.text>>
    /\ delta.type = "thinking_delta" => chunk.choices[1].delta.reasoning = <<delta.thinking>>

(* C14: a stream run to exhaustion whose events hold n content-delta events *)
(* has emitted exactly n + 1 chunks: one for each content delta, in the     *)
(* order of the events, and then the terminal chunk; the events of every    *)
(* other kind emit nothing.                                                 *)
C14_OneChunkPerDelta ==
    pc = "done" =>
        /\ Len(emitted) = Len(ContentDeltas) + 1
        /\ \A k \in 1..Len(ContentDeltas) : CarriesDelta(emitted[k], ContentDeltas[k].delta)
        /\ Last(emitted).choices = <<>>

\* Four events, the second a text delta and the fourth a thinking delta
C14_Witness ==
    /\ pc = "done"
    /\ Len(consumed) = 4
    /\ EventsOf("content_block_delta") = {2, 4}
    /\ consumed[2].delta.type = "text_delta"
    /\ consumed[4].delta.type = "thinking_delta"
    /\ Len(emitted) = 3
    /\ emitted[1].choices[1].delta.content # <<>>
    /\ emitted[2].choices[1].delta.reasoning # <<>>

(* C15: every chunk emitted for a content-delta event has exactly one       *)
(* choice, and its delta carries exactly one of content and reasoning:      *)
(* never both, never neither.                                               *)
C15_ExactlyOneOfContentReasoning ==
    \A k \in 1..Len(emitted) :
        emitted[k].choices # <<>> =>
            /\ Len(emitted[k].choices) = 1
            /\ (emitted[k].choices[1].delta.content # <<>>)
                  # (emitted[k].choices[1].delta.reasoning # <<>>)

(* C15, amended: every chunk emitted for a content-delta event has exactly  *)
(* one choice, and its delta never carries both content and reasoning: it   *)
(* carries content alone for a text delta, reasoning alone for a thinking   *)
(* delta, and neither for any other delta kind that does not fail the       *)
(* stream (a signature delta).                                              *)
C15_AtMostOneOfContentReasoning ==
    \A k \in 1..Len(emitted) :
        emitted[k].choices # <<>> =>
            /\ k <= Len(ContentDeltas)
            /\ Len(emitted[k].choices) = 1
            /\ ~(emitted[k].choices[1].delta.content # <<>>
                   /\ emitted[k].choices[1].delta.reasoning # <<>>)
            /\ emitted[k].choices[1].delta.content # <<>>
                  <=> ContentDeltas[k].delta.type = "text_delta"
            /\ emitted[k].choices[1].delta.reasoning # <<>>
                  <=> ContentDeltas[k].delta.type = "thinking_delta"

\* A thinking delta, a signature delta and a text delta, each with its chunk
C15_Witness ==
    /\ pc = "done"
    /\ Len(ContentDeltas) = 3
    /\ ContentDeltas[1].delta.type = "thinking_delta"
    /\ ContentDeltas[2].delta.type = "signature_delta"
    /\ ContentDeltas[3].delta.type = "text_delta"
    /\ Len(emitted) = 4
    /\ emitted[2].choices[1].delta = [content |-> <<>>, reasoning |-> <<>>]

---------------------------------------------------------------------------
\* The index among the consumed events of the k-th content-delta event
RECURSIVE DeltaIndex(_, _)
DeltaIndex(k, from) ==
    IF IsEvent(consumed[from], "content_block_delta")
    THEN IF k = 1 THEN from ELSE DeltaIndex(k - 1, from + 1)
    ELSE DeltaIndex(k, from + 1)

\* The last stream-start event among the first n consumed events, 0 if none
StartBefore(n) ==
    IF \E i \in 1..n : IsEvent(consumed[i], "message_start")
    THEN CHOOSE i \in 1..n :
            /\ IsEvent(consumed[i], "message_start")
            /\ \A j \in (i + 1)..n : ~IsEvent(consumed[j], "message_start")
    ELSE 0

\* The chunk carries the id and model of the start event at index i (the
\* empty id and model when i = 0)
CarriesStart(chunk, i) ==
    IF i = 0
    THEN chunk.id = "" /\ chunk.model = ""
    ELSE chunk.id = consumed[i].message.id /\ chunk.model = consumed[i].message.model

(* C18 as stated: in a stream with a stream-start event, every chunk        *)
(* carries the id and model of that event and the terminal chunk's          *)
(* prompt_tokens is its input-token count, wherever the start event stands  *)
(* among the other events.                                                  *)
C18_EveryChunkCarriesStart ==
    (pc = "done" /\ Cardinality(EventsOf("message_start")) = 1) =>
        /\ \A k \in 1..Len(emitted) : CarriesStart(emitted[k], LastStart)
        /\ Last(emitted).usage[1].prompt_tokens
              = consumed[LastStart].message.usage.input_tokens

(* C18, amended: every chunk carries the id and model of the last           *)
(* stream-start event consumed before the chunk was emitted, and the empty  *)
(* id and model when there was none; the terminal chunk's prompt_tokens is  *)
(* the input-token count of the last stream-start event of the stream, and  *)
(* 0 when the stream has none.                                              *)
C18_ChunkCarriesPrecedingStart ==
    /\ \A k \in 1..Len(emitted) :
          emitted[k].choices # <<>> =>
              CarriesStart(emitted[k], StartBefore(DeltaIndex(k, 1)))
    /\ pc = "done" =>
          /\ CarriesStart(Last(emitted), LastStart)
          /\ Last(emitted).usage[1].prompt_tokens
                = (IF LastStart = 0 THEN 0
                   ELSE consumed[LastStart].message.usage.input_tokens)

\* A content delta before the start event and one after it, then a second
\* start event
C18_Witness ==
    /\ pc = "done"
    /\ Len(consumed) = 4
    /\ EventsOf("content_block_delta") = {1, 3}
    /\ EventsOf("message_start") = {2, 4}
    /\ emitted[1].id = ""
    /\ emitted[2].id = consumed[2].message.id
    /\ emitted[3].id = consumed[4].message.id
    /\ emitted[2].id # emitted[3].id

(* C19: total_tokens = prompt_tokens + completion_tokens in every state of  *)
(* the generator's usage accumulator and in the terminal chunk.             *)
C19_TotalIsSum ==
    /\ acc.usage.total_tokens = acc.usage.prompt_tokens + acc.usage.completion_tokens
    /\ \A k \in 1..Len(emitted) :
          CarriesUsage(emitted[k]) =>
              emitted[k].usage[1].total_tokens
                  = emitted[k].usage[1].prompt_tokens + emitted[k].usage[1].completion_tokens

\* A start event and two metadata deltas: 2 + (1 + 2 + 2) = 7
C19_Witness ==
    /\ pc = "done"
    /\ Len(consumed) = 3
    /\ LastStart = 1
    /\ EventsOf("message_delta") = {2, 3}
    /\ Last(emitted).usage[1] = [prompt_tokens |-> 2, completion_tokens |-> 5,
                                 total_tokens |-> 7]

---------------------------------------------------------------------------
(* Two streamResponse calls on the one adapter, their generators consumed   *)
(* in any interleaving.  The adapter's only field is the client (line 34);  *)
(* messageId, model and usage are locals of each generator invocation       *)
(* (lines 231-237).                                                         *)

\* The vendor events of the interleaved streams: each branch of the loop,
\* the failing delta included
ConcurrentEvents ==
    MessageStartEvents
        \cup {e \in ContentBlockDeltaEvents :
                 e.delta.type \in {"text_delta", "thinking_delta", "input_json_delta"}}
        \cup {e \in MessageDeltaEvents : e.usage.output_tokens \in {1, MaxTok}}


\* Mutant: messageId, model and usage are kept on the adapter, where the
\* generator of the first call wrote them
LocalsOf_OnAdapter(ss, c) == ss[1].acc

\* The locals the generator of call c reads
LocalsOf(ss, c) == ss[c].acc

\* streamResponse is called a first or a second time; the call rejects, or
\* resolves with a generator of its own
OpenStream(c) ==
    /\ pc = "idle"
    /\ streams[c].pc = "none"
    /\ \E sc \in StreamScenarios :
          streams' = [streams EXCEPT ![c] =
              IF streamResponse(apiKey, sc.model, sc.request, [kind |-> "ok"]).thrown # <<>>
              THEN [Opened EXCEPT !.pc = "threw"]
              ELSE Opened]
    /\ UNCHANGED <<pc, apiKey, callVars, genVars, mig, modal>>

\* The generator of call c after one turn of its loop
AfterEvent(s, chunk, step) ==
    [pc |-> IF step.error # <<>> THEN "failed" ELSE "streaming",
     acc |-> step.acc,
     consumed |-> Append(s.consumed, chunk),
     emitted |-> s.emitted \o step.yield,
     error |-> step.error]

\* Events consumed by the two generators together
ConsumedBy(ss) == Len(ss[1].consumed) + Len(ss[2].consumed)

ConsumeEventOf(c) ==
    /\ streams[c].pc = "streaming"
    /\ ConsumedBy(streams) < MaxEvents
    /\ \E chunk \in ConcurrentEvents :
          streams' = [streams EXCEPT ![c] =
              AfterEvent(streams[c], chunk,
                         streamResponseGenerator(LocalsOf(streams, c), chunk))]
    /\ UNCHANGED <<pc, apiKey, callVars, genVars, mig, modal>>

StreamExhaustedOf(c) ==
    /\ streams[c].pc = "streaming"
    /\ streams' = [streams EXCEPT ![c] =
          [streams[c] EXCEPT !.pc = "done",
                             !.emitted = Append(streams[c].emitted,
                                                FinalChunk(LocalsOf(streams, c)))]]
    /\ UNCHANGED <<pc, apiKey, callVars, genVars, mig, modal>>

NextConcurrent ==
    \/ Construct
    \/ \E c \in Calls : OpenStream(c)
    \/ \E c \in Calls : ConsumeEventOf(c)
    \/ \E c \in Calls : StreamExhaustedOf(c)

SpecConcurrent == Init /\ [][NextConcurrent]_vars

\* A generator run alone over a sequence of events, from r on
RECURSIVE RunAlone(_, _)
RunAlone(r, events) ==
    IF events = <<>> \/ r.pc # "streaming"
    THEN r
    ELSE RunAlone(AfterEvent(r, Head(events), streamResponseGenerator(r.acc, Head(events))),
                  Tail(events))

\* The generator s stands where the run alone r over its events stands, the
\* final chunk apart
SameAsAlone(s, r) ==
    /\ s.consumed = r.consumed
    /\ s.acc = r.acc
    /\ s.error = r.error
    /\ s.pc = "failed" <=> r.pc = "failed"
    /\ s.emitted = IF s.pc = "done" THEN Append(r.emitted, FinalChunk(r.acc)) ELSE r.emitted

(* C11: when two streaming calls on the same adapter are consumed in any    *)
(* interleaving, each call's chunks, and the usage of its terminal chunk,   *)
(* are those of the same call run alone over its own events: nothing of     *)
(* one call shows in the other.                                             *)
C11_StreamsIndependent ==
    \A c \in Calls :
        streams[c].pc \in {"streaming", "done", "failed"} =>
            SameAsAlone(streams[c], RunAlone(Opened, streams[c].consumed))

\* The second call starts and counts between the first call's start event
\* and its content delta; both are exhausted
C11_Witness ==
    /\ streams[1].pc = "done"
    /\ streams[2].pc = "done"
    /\ Len(streams[1].consumed) = 2
    /\ Len(streams[2].consumed) = 2
    /\ streams[1].emitted[1].id = "msg_1"
    /\ Len(streams[1].emitted) = 2
    /\ Len(streams[2].emitted) = 1
    /\ streams[2].emitted[1].id = "msg_2"
    /\ streams[2].emitted[1].usage[1].completion_tokens = 1 + MaxTok
    /\ streams[1].emitted[2].usage[1].completion_tokens = 0

---------------------------------------------------------------------------
(* Settings migration: migrateSettings of src/settings/schema/settings.ts   *)
(* (lines 7-28).  SETTINGS_SCHEMA_VERSION and SETTING_MIGRATIONS come from   *)
(* ./migrations; the list is taken to be the chain 0 -> 1 -> ... -> N, one  *)
(* migration per version, in ascending order.                               *)

MaxSchemaVersion == 3    \* the length of the migration chain

SETTINGS_SCHEMA_VERSION == MaxSchemaVersion

SETTING_MIGRATIONS ==
    [k \in 1..SETTINGS_SCHEMA_VERSION |-> [fromVersion |-> k - 1, toVersion |-> k]]

\* migration.migrate(data): the data in the layout of the migration's target
\* version
Migrate(migration, data) ==
    [data EXCEPT !.version = <<migration.toVersion>>, !.layout = migration.toVersion]

\* The stored data: a version field, absent or a version up to one beyond
\* the schema's, and the layout the other fields are in
StoredData ==
    [version : {<<>>} \cup {<<v>> : v \in 0..(SETTINGS_SCHEMA_VERSION + 1)},
     layout : 0..(SETTINGS_SCHEMA_VERSION + 1)]

\* (currentData.version as number) ?? 0
VersionOf(data) == IF data.version = <<>> THEN 0 ELSE data.version[1]

\* Mutant: a migration applies whenever the data is at or past its source version
MigrationApplies_FromOnly(currentVersion, migration) ==
    /\ currentVersion >= migration.fromVersion
    /\ migration.toVersion <= SETTINGS_SCHEMA_VERSION

\* Lines 14-18: the condition of the loop body
MigrationApplies(currentVersion, migration) ==
    /\ currentVersion >= migration.fromVersion
    /\ currentVersion < migration.toVersion
    /\ migration.toVersion <= SETTINGS_SCHEMA_VERSION

\* Lines 10-11: migrateSettings is entered.  next is the position of the loop
\* in the list; applied and tracked record the migrations applied and the
\* values currentVersion has taken.
LoadSettings ==
    /\ mig.pc = "none"
    /\ \E data \in StoredData :
          mig' = [pc |-> "migrating",
                  data |-> data,
                  currentData |-> data,
                  currentVersion |-> VersionOf(data),
                  next |-> 1,
                  applied |-> <<>>,
                  tracked |-> <<VersionOf(data)>>,
                  caught |-> <<>>,
                  result |-> <<>>,
                  thrown |-> <<>>]
    /\ UNCHANGED <<pc, apiKey, callVars, genVars, streams, modal>>

\* Lines 13-25: one turn of the loop
MigrationTurn ==
    /\ mig.pc = "migrating"
    /\ mig.next <= Len(SETTING_MIGRATIONS)
    /\ mig' = IF MigrationApplies(mig.currentVersion, SETTING_MIGRATIONS[mig.next])
              THEN [mig EXCEPT
                      !.currentData = Migrate(SETTING_MIGRATIONS[mig.next], mig.currentData),
                      !.currentVersion = SETTING_MIGRATIONS[mig.next].toVersion,
                      !.applied = Append(mig.applied, SETTING_MIGRATIONS[mig.next]),
                      !.tracked = Append(mig.tracked, SETTING_MIGRATIONS[mig.next].toVersion),
                      !.next = mig.next + 1]
              ELSE [mig EXCEPT !.next = mig.next + 1]
    /\ UNCHANGED <<pc, apiKey, callVars, genVars, streams, modal>>

\* Line 27: return currentData
MigrateReturns ==
    /\ mig.pc = "migrating"
    /\ mig.next > Len(SETTING_MIGRATIONS)
    /\ mig' = [mig EXCEPT !.pc = "migrated"]
    /\ UNCHANGED <<pc, apiKey, callVars, genVars, streams, modal>>

NextMigrate == LoadSettings \/ MigrationTurn \/ MigrateReturns

SpecMigrate == Init /\ [][NextMigrate]_vars

\* The migrations v -> v+1, ..., N-1 -> N, in ascending order: none when v >= N
ChainFrom(v) ==
    [k \in 1..(IF v >= SETTINGS_SCHEMA_VERSION THEN 0 ELSE SETTINGS_SCHEMA_VERSION - v)
        |-> [fromVersion |-> v + k - 1, toVersion |-> v + k]]

NonDecreasing(s) == \A i \in 1..(Len(s) - 1) : s[i] <= s[i + 1]

\* migrateSettings has returned: it applied the chain from the data's version
AppliedChain ==
    mig.pc = "migrated" =>
        /\ mig.applied = ChainFrom(VersionOf(mig.data))
        /\ VersionOf(mig.data) >= SETTINGS_SCHEMA_VERSION => mig.currentData = mig.data

(* C20 as stated: migrateSettings on data of version v (0 when the field is *)
(* absent) applies exactly the migrations v -> v+1, ..., N-1 -> N, each     *)
(* once and in ascending order, and none for v >= N; the tracked version    *)
(* never decreases and never exceeds N.                                     *)
C20_ChainAppliedWithinN ==
    /\ AppliedChain
    /\ mig.pc # "none" =>
          /\ NonDecreasing(mig.tracked)
          /\ \A i \in 1..Len(mig.tracked) : mig.tracked[i] <= SETTINGS_SCHEMA_VERSION

(* C20, amended: the same migrations are applied; the tracked version never *)
(* decreases, and no migration raises it above N: it is above N only when   *)
(* the data's own version v is above N, and then it stays v.                *)
C20_ChainApplied ==
    /\ AppliedChain
    /\ mig.pc # "none" =>
          /\ NonDecreasing(mig.tracked)
          /\ mig.tracked[1] = VersionOf(mig.data)
          /\ mig.currentVersion = mig.tracked[Len(mig.tracked)]
          /\ \A i \in 2..Len(mig.tracked) : mig.tracked[i] <= SETTINGS_SCHEMA_VERSION
          /\ VersionOf(mig.data) > SETTINGS_SCHEMA_VERSION
                => mig.tracked = <<VersionOf(mig.data)>>
          /\ mig.pc = "migrated" /\ VersionOf(mig.data) <= SETTINGS_SCHEMA_VERSION
                => mig.currentVersion = SETTINGS_SCHEMA_VERSION

\* Data of version 1: the migrations 1 -> 2 and 2 -> 3 and no other
C20_Witness ==
    /\ mig.pc = "migrated"
    /\ mig.data.version = <<1>>
    /\ Len(mig.applied) = SETTINGS_SCHEMA_VERSION - 1
    /\ mig.applied[1] = [fromVersion |-> 1, toVersion |-> 2]
    /\ mig.currentData.version = <<SETTINGS_SCHEMA_VERSION>>

---------------------------------------------------------------------------
(* parseSmartComposerSettings (settings.ts lines 30-40): the migration and  *)
(* the schema's parse inside a try block, the defaults in the catch block.  *)
(* The schema comes from ./setting.types: it accepts the data that is in    *)
(* the layout of the current schema version, and parses the empty object    *)
(* to the default settings.                                                 *)

DefaultSettings == [kind |-> "defaults"]

\* smartComposerSettingsSchema.parse(data)
SchemaParse(data) ==
    IF data.layout = SETTINGS_SCHEMA_VERSION
    THEN Return([kind |-> "parsed", from |-> data])
    ELSE Throw(Err("ZodError"))

\* smartComposerSettingsSchema.parse({})
SchemaParseEmpty == Return(DefaultSettings)

\* Mutant: the catch block logs the error and throws it again
Caught_Rethrown(error) == Throw(error)

\* Lines 36-39: the catch block
Caught(error) == SchemaParseEmpty

\* Line 22: migration.migrate throws; the throw leaves migrateSettings and
\* is caught at line 36
MigrationThrows ==
    /\ mig.pc = "migrating"
    /\ mig.next <= Len(SETTING_MIGRATIONS)
    /\ MigrationApplies(mig.currentVersion, SETTING_MIGRATIONS[mig.next])
    /\ mig' = [mig EXCEPT !.pc = "caught", !.caught = <<Err("MigrationError")>>]
    /\ UNCHANGED <<pc, apiKey, callVars, genVars, streams, modal>>

\* The function ends with r: it returns a value or throws
Ends(m, r) ==
    IF r.ok
    THEN [m EXCEPT !.pc = "returned", !.result = <<r.value>>]
    ELSE [m EXCEPT !.pc = "threw", !.thrown = <<r.error>>]

\* Line 35: the schema parses the migrated data, or throws into the catch block
ParseMigrated(m, r) ==
    IF r.ok
    THEN Ends(m, r)
    ELSE [m EXCEPT !.pc = "caught", !.caught = <<r.error>>]

SchemaParses ==
    /\ mig.pc = "migrated"
    /\ mig' = ParseMigrated(mig, SchemaParse(mig.currentData))
    /\ UNCHANGED <<pc, apiKey, callVars, genVars, streams, modal>>

CatchBlock ==
    /\ mig.pc = "caught"
    /\ mig' = Ends(mig, Caught(mig.caught[1]))
    /\ UNCHANGED <<pc, apiKey, callVars, genVars, streams, modal>>

NextSettings ==
    \/ LoadSettings
    \/ MigrationTurn
    \/ MigrateReturns
    \/ MigrationThrows
    \/ SchemaParses
    \/ CatchBlock

SpecSettings == Init /\ [][NextSettings]_vars

(* C21: parseSmartComposerSettings never throws a migration or validation   *)
(* failure to its caller: when a migration step throws or the migrated data *)
(* fails the schema's validation it returns the default settings, and       *)
(* otherwise it returns the schema's parse of the migrated data.            *)
C21_FailuresGiveDefaults ==
    /\ mig.pc # "threw"
    /\ mig.pc = "returned" =>
          /\ mig.caught # <<>> => mig.result = <<DefaultSettings>>
          /\ mig.caught = <<>> =>
                /\ mig.applied = ChainFrom(VersionOf(mig.data))
                /\ mig.result = <<[kind |-> "parsed", from |-> mig.currentData]>>
                /\ mig.currentData.layout = SETTINGS_SCHEMA_VERSION
          /\ mig.caught = <<Err("ZodError")>> <=>
                (/\ mig.applied = ChainFrom(VersionOf(mig.data))
                 /\ mig.currentData.layout # SETTINGS_SCHEMA_VERSION)
          /\ mig.caught = <<Err("MigrationError")>> =>
                /\ Len(mig.applied) < Len(ChainFrom(VersionOf(mig.data)))
                /\ mig.next <= Len(SETTING_MIGRATIONS)

\* The second migration of data of version 0 throws: the defaults are returned
C21_Witness ==
    /\ mig.pc = "returned"
    /\ mig.data.version = <<0>>
    /\ Len(mig.applied) = 1
    /\ mig.caught = <<Err("MigrationError")>>
    /\ mig.result = <<DefaultSettings>>

---------------------------------------------------------------------------
(* The chat model settings modal (src/unnamed/part_001): the thinking-budget *)
(* form of the registry (lines 79-146), its text field and its Save and     *)
(* Cancel buttons, and plugin.settings, which Save writes.                  *)

MaxModels == 2    \* chat models in plugin.settings

DigitChars == <<"0", "1", "2", "3", "4", "5", "6", "7", "8", "9">>

IsDigit(ch) == \E d \in 1..10 : DigitChars[d] = ch

DigitOf(ch) == (CHOOSE d \in 1..10 : DigitChars[d] = ch) - 1

RECURSIVE NumberToString(_)
\* Number.prototype.toString of a natural number
NumberToString(n) ==
    IF n < 10 THEN <<DigitChars[n + 1]>>
    ELSE Append(NumberToString(n \div 10), DigitChars[(n % 10) + 1])

RECURSIVE LeadingDigits(_)
\* The longest prefix of s made of decimal digits
LeadingDigits(s) ==
    IF s # <<>> /\ IsDigit(Head(s)) THEN <<Head(s)>> \o LeadingDigits(Tail(s)) ELSE <<>>

RECURSIVE DigitsValue(_)
DigitsValue(ds) ==
    IF ds = <<>> THEN 0
    ELSE DigitsValue(SubSeq(ds, 1, Len(ds) - 1)) * 10 + DigitOf(ds[Len(ds)])

\* The digits of an unsigned numeral: NaN (no value) when there is none
UnsignedValue(ds, sign) == IF ds = <<>> THEN <<>> ELSE <<sign * DigitsValue(ds)>>

\* parseInt on a string without leading whitespace: an optional sign, then
\* the leading digits; what follows them is ignored
ParseSigned(s) ==
    IF s # <<>> /\ Head(s) = "-" THEN UnsignedValue(LeadingDigits(Tail(s)), -1)
    ELSE IF s # <<>> /\ Head(s) = "+" THEN UnsignedValue(LeadingDigits(Tail(s)), 1)
    ELSE UnsignedValue(LeadingDigits(s), 1)

\* parseInt(text, 10): an optional number, none for NaN
ParseInt(text) == ParseSigned(TrimStart(text))

\* What the user types into the Budget Tokens field
EnteredTexts ==
    { <<>>,
      <<"a", "b", "c">>,
      <<"1", "0", "2", "3">>,
      <<"1", "0", "2", "4">>,
      <<"4", "0", "9", "6">>,
      <<" ", "4", "0", "9", "6", "x">>,
      <<"-", "2", "0", "4", "8">>,
      <<"1", "e", "9">>,
      <<"1", "0", "2", "3", ".", "9">> }

THINKING_MODEL_ID == "claude-3.7-sonnet-thinking"

\* ChatModel values in plugin.settings.chatModels
SettingsChatModels ==
    { [id |-> THINKING_MODEL_ID, providerType |-> "anthropic", thinking |-> <<>>],
      [id |-> THINKING_MODEL_ID, providerType |-> "anthropic",
       thinking |-> <<[budget_tokens |-> 2048]>>],
      [id |-> "claude-3.5-sonnet", providerType |-> "anthropic", thinking |-> <<>>],
      [id |-> "gpt-4o", providerType |-> "openai", thinking |-> <<>>] }

\* plugin.settings: the chat models and one of the other settings
PluginSettings ==
    [chatModels : SeqsUpTo(SettingsChatModels, MaxModels) \ {<<>>},
     chatModelId : {THINKING_MODEL_ID, "gpt-4o"}]

\* Lines 80-82: the registry entry of the thinking-budget form
check(model) == model.providerType = "anthropic" /\ model.id = THINKING_MODEL_ID

\* Lines 87-89: the initial text of the field
InitialBudgetText(model) ==
    NumberToString(IF model.thinking # <<>> THEN model.thinking[1].budget_tokens ELSE 8192)

\* Lines 103-106
UpdatedModel(typedModel, parsedTokens) ==
    [typedModel EXCEPT !.thinking = <<[budget_tokens |-> parsedTokens]>>]

\* Lines 116-121: the argument of plugin.setSettings
UpdatedSettings(settings, model, updatedModel) ==
    [settings EXCEPT !.chatModels =
        Map(settings.chatModels, LAMBDA m : IF m.id = model.id THEN updatedModel ELSE m)]

Rejected(notice) == [accepted |-> FALSE, notice |-> <<notice>>]
Accepted(settings) == [accepted |-> TRUE, notice |-> <<>>, settings |-> settings]

\* Mutant: the minimum of 1024 is not checked
SubmitParsed_NoMinimum(model, parsedTokens, settings, validates) ==
    IF parsedTokens = <<>>
    THEN Rejected("Please enter a valid number")
    ELSE IF ~validates
    THEN Rejected("schema issues")
    ELSE Accepted(UpdatedSettings(settings, model, UpdatedModel(model, parsedTokens[1])))

\* Lines 93-121, with the result of parseInt and of chatModelSchema.safeParse
SubmitParsed(model, parsedTokens, settings, validates) ==
    IF parsedTokens = <<>>
    THEN Rejected("Please enter a valid number")
    ELSE IF parsedTokens[1] < 1024
    THEN Rejected("Budget tokens must be at least 1024")
    ELSE IF ~validates
    THEN Rejected("schema issues")
    ELSE Accepted(UpdatedSettings(settings, model, UpdatedModel(model, parsedTokens[1])))

\* Lines 91-123 up to the await: the Save is rejected with a notice, or
\* plugin.setSettings is called
handleSubmit(model, budgetTokens, settings, validates) ==
    SubmitParsed(model, ParseInt(budgetTokens), settings, validates)

\* Lines 171-191: the modal is opened on a chat model of plugin.settings that
\* has the thinking-budget form.  last, validated and before record the last
\* press of Save: that it was the last action, what the schema answered, and
\* plugin.settings before it.
OpenModal ==
    /\ modal.pc = "none"
    /\ \E settings \in PluginSettings :
          \E i \in 1..Len(settings.chatModels) :
              /\ check(settings.chatModels[i])
              /\ modal' = [pc |-> "open",
                           model |-> settings.chatModels[i],
                           budgetTokens |-> InitialBudgetText(settings.chatModels[i]),
                           settings |-> settings,
                           pending |-> FALSE,
                           notice |-> <<>>,
                           last |-> "none",
                           validated |-> FALSE,
                           before |-> settings]
    /\ UNCHANGED <<pc, apiKey, callVars, genVars, streams, mig>>

\* Line 135: the text field changes
EditBudget ==
    /\ modal.pc = "open"
    /\ \E text \in EnteredTexts :
          modal' = [modal EXCEPT !.budgetTokens = text, !.last = "none"]
    /\ UNCHANGED <<pc, apiKey, callVars, genVars, streams, mig>>

\* The form after handleSubmit has run to its return or to its await; r is
\* its result.  plugin.setSettings replaces plugin.settings when it is called.
Submitted(m, validates, r) ==
    [m EXCEPT !.settings = IF r.accepted THEN r.settings ELSE m.settings,
              !.pending = m.pending \/ r.accepted,
              !.notice = r.notice,
              !.last = "save",
              !.validated = validates,
              !.before = m.settings]

\* Line 140: Save is pressed
Save ==
    /\ modal.pc = "open"
    /\ \E validates \in BOOLEAN :
          modal' = Submitted(modal, validates,
                             handleSubmit(modal.model, modal.budgetTokens,
                                          modal.settings, validates))
    /\ UNCHANGED <<pc, apiKey, callVars, genVars, streams, mig>>

\* Line 122: plugin.setSettings has resolved and onClose closes the modal
SaveCompletes ==
    /\ modal.pc = "open"
    /\ modal.pending
    /\ modal' = [modal EXCEPT !.pc = "closed", !.pending = FALSE, !.last = "none"]
    /\ UNCHANGED <<pc, apiKey, callVars, genVars, streams, mig>>

\* Line 141: Cancel is pressed
Cancel ==
    /\ modal.pc = "open"
    /\ modal' = [modal EXCEPT !.pc = "closed", !.last = "none"]
    /\ UNCHANGED <<pc, apiKey, callVars, genVars, streams, mig>>

NextModal == OpenModal \/ EditBudget \/ Save \/ SaveCompletes \/ Cancel

SpecModal == Init /\ [][NextModal]_vars

\* The text parses to an integer of at least 1024
ParsesToBudget(text) == ParseInt(text) # <<>> /\ ParseInt(text)[1] >= 1024

\* Settings s are settings b with the thinking budget of the chat models of
\* the edited model's id replaced, and nothing else changed
OnlyEditedModelReplaced(s, b, model, budget) ==
    /\ s.chatModelId = b.chatModelId
    /\ Len(s.chatModels) = Len(b.chatModels)
    /\ \A i \in 1..Len(b.chatModels) :
          IF b.chatModels[i].id = model.id
          THEN /\ s.chatModels[i].id = model.id
               /\ s.chatModels[i].thinking = <<[budget_tokens |-> budget]>>
          ELSE s.chatModels[i] = b.chatModels[i]

(* C22: in the thinking-budget form, after any edits and presses of Save, a *)
(* Save whose text does not parse to an integer of at least 1024, or whose  *)
(* updated model fails the schema's validation, leaves plugin.settings as   *)
(* they were and the modal open; an accepted Save replaces the chat model   *)
(* of the edited model's id and leaves every other chat model and every     *)
(* other setting as they were.                                              *)
C22_SaveFrame ==
    modal.last = "save" =>
        IF ParsesToBudget(modal.budgetTokens) /\ modal.validated
        THEN /\ OnlyEditedModelReplaced(modal.settings, modal.before, modal.model,
                                        ParseInt(modal.budgetTokens)[1])
             /\ modal.pending
        ELSE /\ modal.settings = modal.before
             /\ modal.pc = "open"
             /\ modal.notice # <<>>

\* An accepted Save of " 4096x" on settings that hold another chat model
\* before the edited one
C22_Witness ==
    /\ modal.last = "save"
    /\ modal.budgetTokens = <<" ", "4", "0", "9", "6", "x">>
    /\ modal.validated
    /\ Len(modal.settings.chatModels) = 2
    /\ modal.settings.chatModels[1].id = "gpt-4o"
    /\ modal.settings.chatModels[2].thinking = <<[budget_tokens |-> 4096]>>
    /\ modal.before.chatModels[2].thinking = <<[budget_tokens |-> 2048]>>
    /\ modal.settings # modal.before

=============================================================================
